---- MODULE Spec2Model ----
(***************************************************************************)
(* Model of the PNG -> STL extruder: the Node generate function of         *)
(* src/index.js and the browser PNGToSTLConverter of                       *)
(* src/public/png-to-stl.js.                                               *)
(*                                                                         *)
(* Numbers.  Pixel channels, mask cells, dimensions, pixel budgets and     *)
(* triangle counts are integers.  A scale (millimetres per cell) is a      *)
(* positive rational multiple of a base: the record [n, d, unit] stands    *)
(* for (n / d) * unit, where unit is "mm" (a scale derived from width_mm   *)
(* or height_mm) or "dflt" (the constant SCALE_MM_PER_PX = 0.2645833333,   *)
(* which does not fit a small integer ratio).  A vertex <<X, Y, Z>> of a   *)
(* mesh built with effective scale K = [n, d, unit] stands for the point   *)
(* (X/d * unit, Y/d * unit, Z mm): X and Y are the exact numerators of     *)
(* x * K and y * K.  Thickness is an integer number of millimetres.        *)
(* The source computes in IEEE doubles; on the inputs enumerated here the  *)
(* roundings and floors below give the same integers as the doubles do.    *)
(***************************************************************************)
EXTENDS Integers, Sequences, FiniteSets, TLC

\* An option, environment variable or field that is absent (undefined/null).
None == -1

\* ------------------------------------------------------------------------
\* Program constants
\* ------------------------------------------------------------------------
DEFAULT_THRESHOLD == 128
DEFAULT_THICKNESS == 2
DEFAULT_MAX_PX == 400
STL_HEADER_BYTES == 84
STL_TRIANGLE_BYTES == 50
avgTriPerPixel == 6
GRAY_TRANSPARENT == 255

\* SCALE_MM_PER_PX, 1 x the default unit.
DefaultScale == [n |-> 1, d |-> 1, unit |-> "dflt"]

\* ------------------------------------------------------------------------
\* Arithmetic helpers (JavaScript Math.* on the values the model uses)
\* ------------------------------------------------------------------------
Max(a, b) == IF a >= b THEN a ELSE b
Min(a, b) == IF a <= b THEN a ELSE b

\* Math.round(n / d) for n >= 0, d > 0: nearest integer, halves rounded up.
RoundDiv(n, d) == (2 * n + d) \div (2 * d)

\* Math.floor(n / d) for d > 0.
FloorDiv(n, d) == n \div d

\* The largest m in 0..L with m*m*den <= L*L*num: the floor of
\* L * sqrt(num / den) in exact arithmetic.
ExactFloorScaledSqrt(L, num, den) ==
  CHOOSE m \in 0..L :
    /\ m * m * den <= L * L * num
    /\ (m < L => (m + 1) * (m + 1) * den > L * L * num)

\* The <<L, num, den>> for which the double L * Math.sqrt(num / den) falls
\* just below the integer it equals in exact arithmetic, among the inputs the
\* model enumerates: 15 * Math.sqrt(338 / 450) is 12.999999999999998, not 13.
DoubleUndershoot == {<<15, 338, 450>>}

\* Math.floor(L * Math.sqrt(num / den)) for L >= 0, num >= 0, den > 0 and
\* num <= den, computed in doubles: the exact floor, or one less where the
\* product falls just below an integer.
FloorScaledSqrt(L, num, den) ==
  IF <<L, num, den>> \in DoubleUndershoot
  THEN ExactFloorScaledSqrt(L, num, den) - 1
  ELSE ExactFloorScaledSqrt(L, num, den)

\* ------------------------------------------------------------------------
\* Mask Builder
\* ------------------------------------------------------------------------
\* A pixel is <<r, g, b, a>>; data[i] is pixel i of the row-major buffer
\* (the source's data[4*i .. 4*i+3]).

\* Mutant: the average is truncated instead of rounded.
GrayTruncated(p) == IF p[4] = 0 THEN GRAY_TRANSPARENT ELSE (p[1] + p[2] + p[3]) \div 3

\* gray = a === 0 ? 255 : Math.round((r + g + b) / 3)
Gray(p) == IF p[4] = 0 THEN GRAY_TRANSPARENT ELSE RoundDiv(p[1] + p[2] + p[3], 3)

\* Mutant: the comparison is inverted, gray >= T is foreground.
createMaskInverted(data, width, height, T) ==
  [i \in 0..(width * height - 1) |-> IF Gray(data[i]) >= T THEN 1 ELSE 0]

\* createMask(data, width, height) with this.THRESHOLD = T
createMask(data, width, height, T) ==
  [i \in 0..(width * height - 1) |-> IF Gray(data[i]) < T THEN 1 ELSE 0]

\* ------------------------------------------------------------------------
\* Resampler
\* ------------------------------------------------------------------------
\* Mutant: the new dimensions are not raised to 1.
downsampleImageNoClamp(data, origW, origH, maxPx, T) ==
  LET L == Max(origW, origH)
      maskW == RoundDiv(origW * maxPx, L)
      maskH == RoundDiv(origH * maxPx, L)
      src(i) ==
        LET x2 == i % maskW
            y2 == i \div maskW
            srcX == Min(origW - 1, FloorDiv(x2 * origW, maskW))
            srcY == Min(origH - 1, FloorDiv(y2 * origH, maskH))
        IN  srcY * origW + srcX
  IN  [mask |-> [i \in 0..(maskW * maskH - 1) |->
                   IF Gray(data[src(i)]) < T THEN 1 ELSE 0],
       width |-> maskW,
       height |-> maskH]

\* Mutant: the source pixel is the nearest one, not the one at the floor.
downsampleImageNearest(data, origW, origH, maxPx, T) ==
  LET L == Max(origW, origH)
      maskW == Max(1, RoundDiv(origW * maxPx, L))
      maskH == Max(1, RoundDiv(origH * maxPx, L))
      src(i) ==
        LET x2 == i % maskW
            y2 == i \div maskW
            srcX == Min(origW - 1, RoundDiv(x2 * origW, maskW))
            srcY == Min(origH - 1, RoundDiv(y2 * origH, maskH))
        IN  srcY * origW + srcX
  IN  [mask |-> [i \in 0..(maskW * maskH - 1) |->
                   IF Gray(data[src(i)]) < T THEN 1 ELSE 0],
       width |-> maskW,
       height |-> maskH]

\* downsampleImage(data, origW, origH, maxPx) with this.THRESHOLD = T
downsampleImage(data, origW, origH, maxPx, T) ==
  LET L == Max(origW, origH)
      maskW == Max(1, RoundDiv(origW * maxPx, L))
      maskH == Max(1, RoundDiv(origH * maxPx, L))
      src(i) ==
        LET x2 == i % maskW
            y2 == i \div maskW
            srcX == Min(origW - 1, FloorDiv(x2 * origW, maskW))
            srcY == Min(origH - 1, FloorDiv(y2 * origH, maskH))
        IN  srcY * origW + srcX
  IN  [mask |-> [i \in 0..(maskW * maskH - 1) |->
                   IF Gray(data[src(i)]) < T THEN 1 ELSE 0],
       width |-> maskW,
       height |-> maskH]

\* Node: the resampling branch of generate, entered with options.max_px;
\* maxPx is Math.max(1, Math.floor(options.max_px)) (the budget is an integer
\* in the model).
nodeDownsample(pdata, origW, origH, max_px, threshold) ==
  LET maxPx == Max(1, max_px)
      L == Max(origW, origH)
      maskW == Max(1, RoundDiv(origW * maxPx, L))
      maskH == Max(1, RoundDiv(origH * maxPx, L))
      src(i) ==
        LET x2 == i % maskW
            y2 == i \div maskW
            srcX == Min(origW - 1, FloorDiv(x2 * origW, maskW))
            srcY == Min(origH - 1, FloorDiv(y2 * origH, maskH))
        IN  srcY * origW + srcX
  IN  [mask |-> [i \in 0..(maskW * maskH - 1) |->
                   IF Gray(pdata[src(i)]) < threshold THEN 1 ELSE 0],
       width |-> maskW,
       height |-> maskH]

\* Node: the branch of generate without resampling.
nodeFullMask(pdata, origW, origH, threshold) ==
  [mask |-> [i \in 0..(origW * origH - 1) |->
               IF Gray(pdata[i]) < threshold THEN 1 ELSE 0],
   width |-> origW,
   height |-> origH]

\* ------------------------------------------------------------------------
\* Size Estimator
\* ------------------------------------------------------------------------
\* Number of pixels with gray < T (the blackCount / origBlack loop).
CountBlack(data, n, T) == Cardinality({i \in 0..(n - 1) : Gray(data[i]) < T})

\* estimateMaxPxFromTargetMB(data, width, height, targetMB) with
\* this.THRESHOLD = T.  targetBytes is floor(targetMB * 1024 * 1024): the
\* model passes a target as that number of bytes.
estimateMaxPxFromTargetMB(data, width, height, targetBytes0, T) ==
  LET targetBytes == Max(1, targetBytes0)
      desiredTri == Max(1, FloorDiv(targetBytes - STL_HEADER_BYTES, STL_TRIANGLE_BYTES))
      blackCount == CountBlack(data, width * height, T)
      estOrigTriangles == Max(1, blackCount * avgTriPerPixel)
      L == Max(width, height)
  IN  IF estOrigTriangles <= desiredTri THEN L
      ELSE \* ratio = desiredTri / estOrigTriangles, clamped below at 1e-6
           \* (ratio < 1e-6 iff desiredTri * 1000000 < estOrigTriangles)
           IF desiredTri <= (estOrigTriangles - 1) \div 1000000
           THEN Max(1, FloorScaledSqrt(L, 1, 1000000))
           ELSE Max(1, FloorScaledSqrt(L, desiredTri, estOrigTriangles))

\* ------------------------------------------------------------------------
\* Mesh Extruder
\* ------------------------------------------------------------------------
\* The 8 corners of cell (x, y): x0 = x*K, x1 = (x+1)*K, y0 = (height-y-1)*K,
\* y1 = (height-y)*K, zTop = thickness, zBot = 0 (Kn is the numerator of K).
Corners(x, y, height, Kn, thickness) ==
  LET x0 == x * Kn
      x1 == (x + 1) * Kn
      y0 == (height - y - 1) * Kn
      y1 == (height - y) * Kn
      zTop == thickness
      zBot == 0
  IN  [c00 |-> <<x0, y0, zTop>>, c10 |-> <<x1, y0, zTop>>,
       c11 |-> <<x1, y1, zTop>>, c01 |-> <<x0, y1, zTop>>,
       b00 |-> <<x0, y0, zBot>>, b10 |-> <<x1, y0, zBot>>,
       b11 |-> <<x1, y1, zBot>>, b01 |-> <<x0, y1, zBot>>]

\* The pushes of one foreground cell, in source order; left, right, bottom
\* and top say whether that side's condition held.
TopFace(c) == << <<c.c01, c.c11, c.c10>>, <<c.c01, c.c10, c.c00>> >>
BottomFace(c) == << <<c.b11, c.b01, c.b00>>, <<c.b11, c.b00, c.b10>> >>
\* Mutant: the left wall wound the other way round.
LeftSideFlipped(c) == << <<c.c01, c.b00, c.b01>>, <<c.c01, c.c00, c.b00>> >>
LeftSide(c) == << <<c.c01, c.b01, c.b00>>, <<c.c01, c.b00, c.c00>> >>
RightSide(c) == << <<c.c10, c.b10, c.b11>>, <<c.c10, c.b11, c.c11>> >>
BottomSide(c) == << <<c.c00, c.b00, c.b10>>, <<c.c00, c.b10, c.c10>> >>
TopSide(c) == << <<c.c11, c.b11, c.b01>>, <<c.c11, c.b01, c.c01>> >>

\* Mutant: no face culling, every cell gets its four walls.
CellTrianglesNoCull(c, left, right, bottom, top) ==
  TopFace(c) \o BottomFace(c) \o LeftSide(c) \o RightSide(c)
    \o BottomSide(c) \o TopSide(c)

CellTriangles(c, left, right, bottom, top) ==
  TopFace(c) \o BottomFace(c)
    \o (IF left THEN LeftSide(c) ELSE << >>)
    \o (IF right THEN RightSide(c) ELSE << >>)
    \o (IF bottom THEN BottomSide(c) ELSE << >>)
    \o (IF top THEN TopSide(c) ELSE << >>)

\* Mutant: no bounds test on x and y; only an index outside the array reads
\* as background, so x = -1 and x = width read the neighbouring row.
idxUnchecked(mask, width, height, x, y) ==
  IF y * width + x < 0 \/ y * width + x >= width * height THEN FALSE
  ELSE mask[y * width + x] = 1

\* Browser: idx(x, y), false out of bounds, else mask[y*width + x] === 1.
idx(mask, width, height, x, y) ==
  IF x < 0 \/ x >= width \/ y < 0 \/ y >= height THEN FALSE
  ELSE mask[y * width + x] = 1

\* Browser: the triangles pushed for the cells lo..hi of the row-major loop
\* (cell i is x = i % width, y = i \div width), in loop order.
RECURSIVE trianglesIn(_, _, _, _, _, _, _)
trianglesIn(mask, width, height, Kn, thickness, lo, hi) ==
  IF lo > hi THEN << >>
  ELSE IF lo < hi
  THEN LET mid == (lo + hi) \div 2
       IN  trianglesIn(mask, width, height, Kn, thickness, lo, mid)
             \o trianglesIn(mask, width, height, Kn, thickness, mid + 1, hi)
  ELSE LET x == lo % width
           y == lo \div width
       IN  IF ~idx(mask, width, height, x, y) THEN << >>
           ELSE CellTriangles(Corners(x, y, height, Kn, thickness),
                              ~idx(mask, width, height, x - 1, y),
                              ~idx(mask, width, height, x + 1, y),
                              ~idx(mask, width, height, x, y + 1),
                              ~idx(mask, width, height, x, y - 1))

\* generateTriangles(mask, width, height, scale) with this.THICKNESS_MM = thickness
generateTriangles(mask, width, height, Kn, thickness) ==
  trianglesIn(mask, width, height, Kn, thickness, 0, width * height - 1)

\* Node: the triangles pushed for the cells lo..hi of the row-major loop; a
\* side is emitted when the cell is on the border or !mask[idx(neighbour)].
RECURSIVE nodeTrianglesIn(_, _, _, _, _, _, _)
nodeTrianglesIn(mask, maskW, maskH, Kn, thickness, lo, hi) ==
  IF lo > hi THEN << >>
  ELSE IF lo < hi
  THEN LET mid == (lo + hi) \div 2
       IN  nodeTrianglesIn(mask, maskW, maskH, Kn, thickness, lo, mid)
             \o nodeTrianglesIn(mask, maskW, maskH, Kn, thickness, mid + 1, hi)
  ELSE LET x == lo % maskW
           y == lo \div maskW
       IN  IF mask[y * maskW + x] = 0 THEN << >>
           ELSE CellTriangles(Corners(x, y, maskH, Kn, thickness),
                              x = 0 \/ mask[y * maskW + (x - 1)] = 0,
                              x = maskW - 1 \/ mask[y * maskW + (x + 1)] = 0,
                              y = maskH - 1 \/ mask[(y + 1) * maskW + x] = 0,
                              y = 0 \/ mask[(y - 1) * maskW + x] = 0)

\* Mutant: the cells are visited from the last to the first.
nodeTrianglesReversed(mask, maskW, maskH, Kn, thickness) ==
  LET t == nodeTrianglesIn(mask, maskW, maskH, Kn, thickness, 0, maskW * maskH - 1)
  IN  [i \in 1..Len(t) |-> t[Len(t) + 1 - i]]

nodeTriangles(mask, maskW, maskH, Kn, thickness) ==
  nodeTrianglesIn(mask, maskW, maskH, Kn, thickness, 0, maskW * maskH - 1)

\* ------------------------------------------------------------------------
\* Binary Mesh Serializer
\* ------------------------------------------------------------------------
\* The unnormalised normal cross(v1 - v0, v2 - v0) of a triangle.
Normal(tri) ==
  LET v0 == tri[1]
      v1 == tri[2]
      v2 == tri[3]
      ux == v1[1] - v0[1]
      uy == v1[2] - v0[2]
      uz == v1[3] - v0[3]
      vx == v2[1] - v0[1]
      vy == v2[2] - v0[2]
      vz == v2[3] - v0[3]
  IN  <<uy * vz - uz * vy, uz * vx - ux * vz, ux * vy - uy * vx>>

\* Length of the buffer allocated for the triangles: 80 + 4 + triCount * 50.
stlBufferSize(triangles) == 80 + 4 + Len(triangles) * STL_TRIANGLE_BYTES

\* The serializers' output is the allocated, zero-filled buffer together with
\* the writes made into it, in order.  A write is [at, size, kind, val]:
\* kind "raw" writes the byte values val (size = Len(val)); kind "f32" writes
\* the 4 bytes of the little-endian IEEE single nearest to val (the bit
\* pattern itself is not expanded).  A float value is [num, sq] and stands
\* for num / sqrt(sq), in the units of the vertex coordinates.
RawWrite(at, bytes) == [at |-> at, size |-> Len(bytes), kind |-> "raw", val |-> bytes]
FloatWrite(at, v) == [at |-> at, size |-> 4, kind |-> "f32", val |-> v]

\* writeUInt32LE / setUint32(.., true): the 4 bytes of n, lowest first.
UInt32LE(n) ==
  <<n % 256, (n \div 256) % 256, (n \div 65536) % 256, (n \div 16777216) % 256>>

\* writeUInt16LE / setUint16(.., true): the 2 bytes of n, lowest first.
UInt16LE(n) == <<n % 256, (n \div 256) % 256>>

\* ASCII codes of the names the programs pass: 'extruded' and 'model'.
NAME_EXTRUDED == <<101, 120, 116, 114, 117, 100, 101, 100>>
NAME_MODEL == <<109, 111, 100, 101, 108>>

\* name.substring(0, 80) of an ASCII name (one byte per character).
NameBytes(name) == SubSeq(name, 1, Min(80, Len(name)))

\* A vertex coordinate as a float value.
Coord(c) == [num |-> c, sq |-> 1]

\* nx / nl, ny / nl, nz / nl with nl = sqrt(nx*nx + ny*ny + nz*nz) || 1.  A
\* normal along one axis (every triangle of the extruders) divides to -1, 0
\* or 1 whatever the scale of the coordinates; a zero normal divides by 1.
UnitNormal(tri) ==
  LET n == Normal(tri)
      zeros == Cardinality({k \in 1..3 : n[k] = 0})
  IN  IF zeros >= 2
      THEN [k \in 1..3 |->
              [num |-> IF n[k] > 0 THEN 1 ELSE IF n[k] < 0 THEN -1 ELSE 0, sq |-> 1]]
      ELSE [k \in 1..3 |->
              [num |-> n[k], sq |-> n[1] * n[1] + n[2] * n[2] + n[3] * n[3]]]

\* Mutant: offset is not advanced past the attribute field.
TriangleWritesNoAttr(tri, offset) ==
  LET nrm == UnitNormal(tri)
      floats == <<nrm[1], nrm[2], nrm[3]>>
                  \o [k \in 1..9 |-> Coord(tri[((k - 1) \div 3) + 1][((k - 1) % 3) + 1])]
  IN  [writes |-> [k \in 1..13 |->
                     IF k <= 12 THEN FloatWrite(offset + 4 * (k - 1), floats[k])
                     ELSE RawWrite(offset + 48, UInt16LE(0))],
       offset |-> offset + 48]

\* One pass of the triangle loop, entered with offset: 3 floats of the
\* normal, 3 x 3 floats of v0, v1, v2, each followed by offset += 4, then the
\* 2-byte attribute count 0 and offset += 2.  The result is the writes and
\* the offset the pass leaves.
TriangleWrites(tri, offset) ==
  LET nrm == UnitNormal(tri)
      floats == <<nrm[1], nrm[2], nrm[3]>>
                  \o [k \in 1..9 |-> Coord(tri[((k - 1) \div 3) + 1][((k - 1) % 3) + 1])]
  IN  [writes |-> [k \in 1..13 |->
                     IF k <= 12 THEN FloatWrite(offset + 4 * (k - 1), floats[k])
                     ELSE RawWrite(offset + 48, UInt16LE(0))],
       offset |-> offset + 48 + 2]

\* The passes for triangles lo..hi, entered with offset.
RECURSIVE LoopWrites(_, _, _, _)
LoopWrites(triangles, lo, hi, offset) ==
  IF lo > hi THEN [writes |-> << >>, offset |-> offset]
  ELSE IF lo = hi THEN TriangleWrites(triangles[lo], offset)
  ELSE LET mid == (lo + hi) \div 2
           first == LoopWrites(triangles, lo, mid, offset)
           rest == LoopWrites(triangles, mid + 1, hi, first.offset)
       IN  [writes |-> first.writes \o rest.writes, offset |-> rest.offset]

\* Node: meshTrianglesToBinarySTL(triangles, name).  The 80-byte header
\* buffer, holding the name and zeros, is copied to offset 0.
meshTrianglesToBinarySTL(triangles, name) ==
  LET header == [k \in 1..80 |->
                   IF k <= Len(NameBytes(name)) THEN NameBytes(name)[k] ELSE 0]
      loop == LoopWrites(triangles, 1, Len(triangles), STL_HEADER_BYTES)
  IN  [length |-> stlBufferSize(triangles),
       writes |-> <<RawWrite(0, header), RawWrite(80, UInt32LE(Len(triangles)))>>
                    \o loop.writes,
       offset |-> loop.offset]

\* Browser: trianglesToBinarySTL(triangles, name).  The encoded name is set
\* at offset 0 of the zero-filled buffer.
trianglesToBinarySTL(triangles, name) ==
  LET loop == LoopWrites(triangles, 1, Len(triangles), STL_HEADER_BYTES)
  IN  [length |-> stlBufferSize(triangles),
       writes |-> <<RawWrite(0, NameBytes(name)), RawWrite(80, UInt32LE(Len(triangles)))>>
                    \o loop.writes,
       offset |-> loop.offset]

NoFile == [length |-> 0, writes |-> << >>, offset |-> 0]

\* ------------------------------------------------------------------------
\* Scales
\* ------------------------------------------------------------------------
\* JavaScript truthiness of a number option: present and not 0.
Truthy(v) == v # None /\ v # 0

\* mm / px as the scale (mm / px) millimetres per pixel.
Ratio(mm, px) == [n |-> mm, d |-> px, unit |-> "mm"]

\* scale * (num / den)
ScaleTimes(scale, num, den) == [n |-> scale.n * num, d |-> scale.d * den, unit |-> scale.unit]

\* Two scales denote the same number.
SameScale(a, b) == a.unit = b.unit /\ a.n * b.d = b.n * a.d

NoScale == [n |-> 0, d |-> 1, unit |-> "mm"]
NoMask == [mask |-> << >>, width |-> 0, height |-> 0]

\* ------------------------------------------------------------------------
\* State
\* ------------------------------------------------------------------------
VARIABLES
  env,           \* Node: process.env._MAX_PX and _TARGET_MB (None when unset)
  options,       \* Node: the caller's options object of the current generate call
  node,          \* Node: position and locals of the generate call
  THRESHOLD,     \* browser: this.THRESHOLD of the converter instance
  THICKNESS_MM,  \* browser: this.THICKNESS_MM of the converter instance
  calls          \* browser: position and locals of each generateSTL call

vars == <<env, options, node, THRESHOLD, THICKNESS_MM, calls>>

CallIds == {1, 2}

NoOptions ==
  [thickness |-> None, threshold |-> None, scale |-> NoScale, width_mm |-> None,
   height_mm |-> None, max_px |-> None, target_size_mb |-> None]

NoImage == [width |-> 0, height |-> 0, data |-> << >>]

\* The report generate returns (absent until it returns).
NoResult == [width_mm |-> NoScale, height_mm |-> NoScale, scale_mm_per_px |-> NoScale]

\* request is the options object as the caller passed it; estimate is the
\* budget the size estimate assigned (None while it has not run).
IdleNode ==
  [pc |-> "load", request |-> NoOptions, image |-> NoImage, thickness |-> None,
   threshold |-> None, scale |-> NoScale, estimate |-> None, resampled |-> FALSE,
   mask |-> NoMask, originalScale |-> NoScale, effectiveScale |-> NoScale,
   triangles |-> << >>, file |-> NoFile, result |-> NoResult]

IdleCall ==
  [pc |-> "idle", image |-> NoImage, opt |-> NoOptions, scale |-> NoScale,
   effectiveMaxPx |-> None, estimate |-> None, resampled |-> FALSE,
   mask |-> NoMask, effectiveScale |-> NoScale, triangles |-> << >>,
   blob |-> NoFile]

\* ------------------------------------------------------------------------
\* Node: generate(options)
\* ------------------------------------------------------------------------
\* The options object a caller builds from a request (req.scale is NoScale
\* when the caller passes no scale).
NodeOptions(req) ==
  [thickness |-> req.thickness, threshold |-> req.threshold, scale |-> req.scale,
   width_mm |-> req.width_mm, height_mm |-> req.height_mm, max_px |-> req.max_px,
   target_size_mb |-> req.target]

\* let scale = typeof options.scale === 'number' ? options.scale : null;
\* if (!scale) { width_mm / origW, else height_mm / origH, else SCALE_MM_PER_PX }
nodeScale(opts, origW, origH) ==
  IF opts.scale.n # 0 THEN opts.scale
  ELSE IF Truthy(opts.width_mm) THEN Ratio(opts.width_mm, origW)
  ELSE IF Truthy(opts.height_mm) THEN Ratio(opts.height_mm, origH)
  ELSE DefaultScale

\* originalScale, recomputed from width_mm / height_mm before the extrusion.
nodeOriginalScale(opts, origW, origH) ==
  IF Truthy(opts.width_mm) THEN Ratio(opts.width_mm, origW)
  ELSE IF Truthy(opts.height_mm) THEN Ratio(opts.height_mm, origH)
  ELSE DefaultScale

\* Module load: parseArgs() copies --max-px and --target-mb into process.env.
\* The Node program and the browser page are separate programs: a behaviour
\* follows one of them.
parseArgs(e) ==
  /\ node.pc = "load"
  /\ \A c \in CallIds : calls[c].pc = "idle"
  /\ env' = e
  /\ node' = [node EXCEPT !.pc = "idle"]
  /\ UNCHANGED <<options, THRESHOLD, THICKNESS_MM, calls>>

\* The locals of generate after its entry: options defaults, the image is
\* read, scale is computed.
NodeEntered(req) ==
  [IdleNode EXCEPT
     !.pc = "estimate",
     !.request = NodeOptions(req),
     !.image = req.image,
     !.thickness = IF req.thickness # None THEN req.thickness ELSE DEFAULT_THICKNESS,
     !.threshold = IF req.threshold # None THEN req.threshold ELSE DEFAULT_THRESHOLD,
     !.scale = nodeScale(NodeOptions(req), req.image.width, req.image.height)]

\* Entry of generate.
NodeCall(req) ==
  /\ node.pc = "idle"
  /\ options' = NodeOptions(req)
  /\ node' = NodeEntered(req)
  /\ UNCHANGED <<env, THRESHOLD, THICKNESS_MM, calls>>

\* Entry of generate for a caller that passes the options object of its
\* previous call again, with another image as input: the object holds what
\* the previous call left in it; request stays what the caller built.
NodeCallAgain(image) ==
  /\ node.pc \in {"done", "error"}
  /\ node' = [IdleNode EXCEPT
       !.pc = "estimate",
       !.request = node.request,
       !.image = image,
       !.thickness = IF options.thickness # None THEN options.thickness
                     ELSE DEFAULT_THICKNESS,
       !.threshold = IF options.threshold # None THEN options.threshold
                     ELSE DEFAULT_THRESHOLD,
       !.scale = nodeScale(options, image.width, image.height)]
  /\ UNCHANGED <<env, options, THRESHOLD, THICKNESS_MM, calls>>

\* if (options.target_size_mb && isFinite && !options.max_px) { estimate }
NodeEstimate ==
  /\ node.pc = "estimate"
  /\ IF Truthy(options.target_size_mb) /\ ~Truthy(options.max_px)
     THEN LET m == estimateMaxPxFromTargetMB(node.image.data, node.image.width,
                     node.image.height, options.target_size_mb, node.threshold)
          IN  /\ options' = [options EXCEPT !.max_px = m]
              /\ node' = [node EXCEPT !.pc = "default", !.estimate = m]
     ELSE /\ options' = options
          /\ node' = [node EXCEPT !.pc = "default"]
  /\ UNCHANGED <<env, THRESHOLD, THICKNESS_MM, calls>>

\* if (!options.max_px && !options.target_size_mb) { env fallbacks, else 400 }
NodeDefault ==
  /\ node.pc = "default"
  /\ IF ~Truthy(options.max_px) /\ ~Truthy(options.target_size_mb)
     THEN IF Truthy(env.MAX_PX) THEN options' = [options EXCEPT !.max_px = env.MAX_PX]
          ELSE IF Truthy(env.TARGET_MB)
               THEN options' = [options EXCEPT !.target_size_mb = env.TARGET_MB]
               ELSE options' = [options EXCEPT !.max_px = DEFAULT_MAX_PX]
     ELSE options' = options
  /\ node' = [node EXCEPT !.pc = "mask"]
  /\ UNCHANGED <<env, THRESHOLD, THICKNESS_MM, calls>>

\* The mask: resampled when options.max_px is set and max(origW, origH)
\* exceeds it, else built at the original resolution.
NodeMask ==
  /\ node.pc = "mask"
  /\ LET origW == node.image.width
         origH == node.image.height
     IN  IF Truthy(options.max_px) /\ Max(origW, origH) > options.max_px
         THEN node' = [node EXCEPT
                !.pc = "extrude",
                !.resampled = TRUE,
                !.mask = nodeDownsample(node.image.data, origW, origH, options.max_px,
                                        node.threshold)]
         ELSE node' = [node EXCEPT
                !.pc = "extrude",
                !.mask = nodeFullMask(node.image.data, origW, origH, node.threshold)]
  /\ UNCHANGED <<env, options, THRESHOLD, THICKNESS_MM, calls>>

\* Mutant: effectiveScale = originalScale * (origW / maskH).
NodeExtrudeByHeight ==
  /\ node.pc = "extrude"
  /\ LET originalScale == nodeOriginalScale(options, node.image.width, node.image.height)
         effectiveScale == ScaleTimes(originalScale, node.image.width, node.mask.height)
     IN  node' = [node EXCEPT
           !.pc = "finish",
           !.originalScale = originalScale,
           !.effectiveScale = effectiveScale,
           !.triangles = nodeTriangles(node.mask.mask, node.mask.width, node.mask.height,
                                       effectiveScale.n, node.thickness)]
  /\ UNCHANGED <<env, options, THRESHOLD, THICKNESS_MM, calls>>

\* effectiveScale = originalScale * (origW / maskW), then the cell loop.
NodeExtrude ==
  /\ node.pc = "extrude"
  /\ LET originalScale == nodeOriginalScale(options, node.image.width, node.image.height)
         effectiveScale == ScaleTimes(originalScale, node.image.width, node.mask.width)
     IN  node' = [node EXCEPT
           !.pc = "finish",
           !.originalScale = originalScale,
           !.effectiveScale = effectiveScale,
           !.triangles = nodeTriangles(node.mask.mask, node.mask.width, node.mask.height,
                                       effectiveScale.n, node.thickness)]
  /\ UNCHANGED <<env, options, THRESHOLD, THICKNESS_MM, calls>>

\* Mutant: the empty-mesh test is missing.
NodeCheckEmptyMissing ==
  /\ node.pc = "finish"
  /\ node' = [node EXCEPT !.pc = "write"]
  /\ UNCHANGED <<env, options, THRESHOLD, THICKNESS_MM, calls>>

\* if (triangles.length === 0) throw new Error('No black regions detected')
NodeCheckEmpty ==
  /\ node.pc = "finish"
  /\ node' = [node EXCEPT !.pc = IF Len(node.triangles) = 0 THEN "error" ELSE "write"]
  /\ UNCHANGED <<env, options, THRESHOLD, THICKNESS_MM, calls>>

\* Serialize, write the output file, return the report
\* { width_mm: origW * scale, height_mm: origH * scale, scale_mm_per_px: scale }.
NodeWrite ==
  /\ node.pc = "write"
  /\ node' = [node EXCEPT
       !.pc = "done",
       !.file = meshTrianglesToBinarySTL(node.triangles, NAME_EXTRUDED),
       !.result = [width_mm |-> ScaleTimes(node.scale, node.image.width, 1),
                   height_mm |-> ScaleTimes(node.scale, node.image.height, 1),
                   scale_mm_per_px |-> node.scale]]
  /\ UNCHANGED <<env, options, THRESHOLD, THICKNESS_MM, calls>>

\* ------------------------------------------------------------------------
\* Browser: PNGToSTLConverter.generateSTL(imageFile, options)
\* ------------------------------------------------------------------------
\* The destructured options of a call (the browser has no scale option and
\* calls the target size target_mb).
BrowserOptions(req) ==
  [thickness |-> IF req.thickness # None THEN req.thickness ELSE DEFAULT_THICKNESS,
   threshold |-> IF req.threshold # None THEN req.threshold ELSE DEFAULT_THRESHOLD,
   scale |-> NoScale, width_mm |-> req.width_mm, height_mm |-> req.height_mm,
   max_px |-> req.max_px, target_size_mb |-> req.target]

\* if (width_mm) width_mm / width, else if (height_mm) height_mm / height,
\* else this.SCALE_MM_PER_PX
browserScale(opt, width, height) ==
  IF Truthy(opt.width_mm) THEN Ratio(opt.width_mm, width)
  ELSE IF Truthy(opt.height_mm) THEN Ratio(opt.height_mm, height)
  ELSE DefaultScale

\* The code from the second await to the return runs without suspension: no
\* other call takes a step while one call is between these points.
Running(c) == calls[c].pc \in {"mask", "extrude", "finish", "blob"}
NoOtherRunning(c) == \A o \in CallIds \ {c} : ~Running(o)

\* Entry of generateSTL up to the first await: the options are destructured
\* and this.THRESHOLD, this.THICKNESS_MM are set.
BrowserEntered(req) ==
  [IdleCall EXCEPT !.pc = "loadImage", !.image = req.image, !.opt = BrowserOptions(req)]

BrowserCall(c, req) ==
  /\ node.pc = "load"
  /\ calls[c].pc = "idle"
  /\ NoOtherRunning(c)
  /\ THRESHOLD' = BrowserOptions(req).threshold
  /\ THICKNESS_MM' = BrowserOptions(req).thickness
  /\ calls' = [calls EXCEPT ![c] = BrowserEntered(req)]
  /\ UNCHANGED <<env, options, node>>

\* The same input given to both programs: generate is called in the Node
\* process and generateSTL on a converter in the browser, with one request.
\* The two run side by side so that their results can be compared.
BothCall(req) ==
  /\ node.pc = "idle"
  /\ calls[1].pc = "idle"
  /\ options' = NodeOptions(req)
  /\ node' = NodeEntered(req)
  /\ THRESHOLD' = BrowserOptions(req).threshold
  /\ THICKNESS_MM' = BrowserOptions(req).thickness
  /\ calls' = [calls EXCEPT ![1] = BrowserEntered(req)]
  /\ UNCHANGED env

\* await this.loadImage(imageFile) resolves.
BrowserLoadImage(c) ==
  /\ calls[c].pc = "loadImage"
  /\ NoOtherRunning(c)
  /\ calls' = [calls EXCEPT ![c].pc = "getImageData"]
  /\ UNCHANGED <<env, options, node, THRESHOLD, THICKNESS_MM>>

\* await this.getImageData(img) resolves; scale and effectiveMaxPx follow.
BrowserBudget(c) ==
  /\ calls[c].pc = "getImageData"
  /\ NoOtherRunning(c)
  /\ LET cl == calls[c]
         opt == cl.opt
         est == estimateMaxPxFromTargetMB(cl.image.data, cl.image.width,
                  cl.image.height, opt.target_size_mb, THRESHOLD)
         useTarget == Truthy(opt.target_size_mb) /\ ~Truthy(opt.max_px)
     IN  calls' = [calls EXCEPT ![c] = [cl EXCEPT
           !.pc = "mask",
           !.scale = browserScale(opt, cl.image.width, cl.image.height),
           !.estimate = IF useTarget THEN est ELSE None,
           !.effectiveMaxPx = IF useTarget THEN est ELSE opt.max_px]]
  /\ UNCHANGED <<env, options, node, THRESHOLD, THICKNESS_MM>>

\* Downsample if needed, else createMask.
BrowserMask(c) ==
  /\ calls[c].pc = "mask"
  /\ LET cl == calls[c]
         width == cl.image.width
         height == cl.image.height
     IN  IF Truthy(cl.effectiveMaxPx) /\ Max(width, height) > cl.effectiveMaxPx
         THEN LET result == downsampleImage(cl.image.data, width, height,
                                            cl.effectiveMaxPx, THRESHOLD)
              IN  calls' = [calls EXCEPT ![c] = [cl EXCEPT
                    !.pc = "extrude",
                    !.resampled = TRUE,
                    !.mask = result,
                    !.effectiveScale = ScaleTimes(cl.scale, width, result.width)]]
         ELSE calls' = [calls EXCEPT ![c] = [cl EXCEPT
                !.pc = "extrude",
                !.mask = [mask |-> createMask(cl.image.data, width, height, THRESHOLD),
                          width |-> width, height |-> height],
                !.effectiveScale = cl.scale]]
  /\ UNCHANGED <<env, options, node, THRESHOLD, THICKNESS_MM>>

\* const triangles = this.generateTriangles(maskData, maskW, maskH, effectiveScale)
BrowserExtrude(c) ==
  /\ calls[c].pc = "extrude"
  /\ LET cl == calls[c]
     IN  calls' = [calls EXCEPT ![c] = [cl EXCEPT
           !.pc = "finish",
           !.triangles = generateTriangles(cl.mask.mask, cl.mask.width, cl.mask.height,
                                           cl.effectiveScale.n, THICKNESS_MM)]]
  /\ UNCHANGED <<env, options, node, THRESHOLD, THICKNESS_MM>>

\* if (triangles.length === 0) throw new Error('No black regions detected in image')
BrowserCheckEmpty(c) ==
  /\ calls[c].pc = "finish"
  /\ calls' = [calls EXCEPT
       ![c].pc = IF Len(calls[c].triangles) = 0 THEN "error" ELSE "blob"]
  /\ UNCHANGED <<env, options, node, THRESHOLD, THICKNESS_MM>>

\* Build the binary STL and return it as a Blob.
BrowserBlob(c) ==
  /\ calls[c].pc = "blob"
  /\ calls' = [calls EXCEPT ![c].pc = "done",
                            ![c].blob = trianglesToBinarySTL(calls[c].triangles, NAME_MODEL)]
  /\ UNCHANGED <<env, options, node, THRESHOLD, THICKNESS_MM>>

\* ------------------------------------------------------------------------
\* Inputs
\* ------------------------------------------------------------------------
MaxSide == 3     \* longest side of an enumerated image
MaxCells == 4    \* most pixels of an image of the pipeline requests
GeomCells == 9   \* most pixels of an image of the geometry requests
BigSide == 401   \* longer side of the large images, one above DEFAULT_MAX_PX

Black == <<0, 0, 0, 255>>
White == <<255, 255, 255, 255>>
Clear == <<0, 0, 0, 0>>
Dark == <<127, 127, 128, 255>>
Mid == <<127, 128, 128, 255>>

Shapes(cells) ==
  {wh \in (1..MaxSide) \X (1..MaxSide) : wh[1] * wh[2] <= cells}

ImagesOf(shapes, kinds) ==
  UNION {{[width |-> wh[1], height |-> wh[2], data |-> f] :
            f \in [0..(wh[1] * wh[2] - 1) -> kinds]} : wh \in shapes}

\* A large image: one row or one column of BigSide pixels, white except for
\* the pixels at the indices in black.
BigImage(w, h, black) ==
  [width |-> w, height |-> h,
   data |-> [i \in 0..(w * h - 1) |-> IF i \in black THEN Black ELSE White]]

BigImages ==
  {BigImage(BigSide, 1, {0}), BigImage(1, BigSide, {0, BigSide - 1}),
   BigImage(BigSide, 1, {}),
   \* 22 isolated black pixels: 264 triangles, a count of more than one byte
   BigImage(BigSide, 1, {2 * k : k \in 0..21})}

\* Rectangles whose resampled sides fall between integers: 3x4 and 4x3
\* (budget 2 gives 1.5 cells), 3x2 and 2x3 (budget 2 gives 4/3 cells), black
\* on the main diagonal and in the last pixel.
RectImages ==
  {BigImage(wh[1], wh[2],
            {i \in 0..(wh[1] * wh[2] - 1) : i % wh[1] = i \div wh[1]}
              \cup {wh[1] * wh[2] - 1}) :
     wh \in {<<3, 4>>, <<4, 3>>, <<3, 2>>, <<2, 3>>}}

Request(image, thickness, threshold, width_mm, height_mm, max_px, target) ==
  [image |-> image, thickness |-> thickness, threshold |-> threshold,
   scale |-> NoScale, width_mm |-> width_mm, height_mm |-> height_mm,
   max_px |-> max_px, target |-> target]

\* Physical sizes: none, a width, a height.
Sizes == {<<None, None>>, <<6, None>>, <<None, 6>>}

\* Pixel budgets <<max_px, target size in bytes>>.
Budgets ==
  {<<None, None>>, <<1, None>>, <<2, None>>, <<3, None>>,
   <<None, 134>>, <<None, 384>>, <<2, 384>>}

\* process.env after parseArgs: nothing, --max-px, --target-mb, both.
Envs ==
  {[MAX_PX |-> None, TARGET_MB |-> None], [MAX_PX |-> 2, TARGET_MB |-> None],
   [MAX_PX |-> None, TARGET_MB |-> 134], [MAX_PX |-> 2, TARGET_MB |-> 134]}

\* Requests that exercise the budget rules on small and large images.
PipelineRequests ==
  {Request(im, None, th, sz[1], sz[2], bu[1], bu[2]) :
     im \in ImagesOf(Shapes(MaxCells), {Black, White})
              \cup ImagesOf(Shapes(MaxCells), {Clear}) \cup BigImages
              \cup RectImages,
     th \in {None, 0}, sz \in Sizes, bu \in Budgets}

\* Requests that exercise the gray / threshold rule.
MaskRequests ==
  {Request(im, None, th, None, None, mp, None) :
     im \in ImagesOf(Shapes(2), {Black, White, Clear, Dark, Mid}),
     th \in {None, 0, 1, 127, 129, 255}, mp \in {None, 1}}

\* Requests of a caller of generate that passes options.scale: half a
\* millimetre per pixel, or the default scale itself.
ScaleRequests ==
  {[Request(im, None, None, sz[1], sz[2], mp, None) EXCEPT !.scale = sc] :
     im \in ImagesOf(Shapes(2), {Black}),
     sc \in {[n |-> 1, d |-> 2, unit |-> "mm"], DefaultScale},
     sz \in Sizes, mp \in {None, 1}}

\* Requests with a target size for an all-black row of BigSide pixels (an
\* estimate of 6 * BigSide triangles): room for 600 and for 2400 triangles.
EstimateRequests ==
  {Request(BigImage(BigSide, 1, 0..(BigSide - 1)), None, None, None, None, None, t) :
     t \in {84 + 50 * 600, 84 + 50 * 2400}}
  \cup \* an all-black 15x5 image (estimate 450) with room for 338 triangles:
       \* 15 * sqrt(338 / 450) is exactly 13
       {Request(BigImage(15, 5, 0..74), None, None, None, None, None, 84 + 50 * 338)}

Requests ==
  PipelineRequests \cup MaskRequests \cup ScaleRequests \cup EstimateRequests

\* Requests of two calls on one converter: rows of pixels of gray 0 and
\* 128, thresholds 128 and 129, thickness 1 and 2.
TwoCallRequests ==
  {Request(im, tk, th, None, None, None, None) :
     im \in ImagesOf({wh \in Shapes(2) : wh[2] = 1}, {Black, Mid}),
     tk \in {1, 2}, th \in {128, 129}}

\* Requests and images of a caller that reuses its options object: black
\* and white images of up to 3 pixels; no budget, a target size, max_px.
ReuseImages == ImagesOf(Shapes(3), {Black, White})
ReuseRequests ==
  {Request(im, None, None, None, None, bu[1], bu[2]) :
     im \in ReuseImages,
     bu \in {<<None, None>>, <<None, 134>>, <<None, 384>>, <<2, None>>}}

\* Requests given to both programs: every black and white image, with an
\* explicit max_px (some also without).
BothRequests ==
  {Request(im, tk, th, sz[1], sz[2], mp, None) :
     im \in ImagesOf(Shapes(MaxCells), {Black, White}) \cup RectImages,
     tk \in {None, 1}, th \in {None, 255}, sz \in Sizes, mp \in {1, 2, 3}}

\* Requests that exercise the extruder on every black and white image.
GeomRequests ==
  {Request(im, o[1], None, o[2], None, o[3], None) :
     im \in ImagesOf(Shapes(GeomCells), {Black, White}),
     o \in {<<None, None, None>>, <<1, 6, None>>, <<1, None, 2>>}}

\* ------------------------------------------------------------------------
\* Specifications
\* ------------------------------------------------------------------------
Init ==
  /\ env = [MAX_PX |-> None, TARGET_MB |-> None]
  /\ options = NoOptions
  /\ node = IdleNode
  /\ THRESHOLD = DEFAULT_THRESHOLD
  /\ THICKNESS_MM = DEFAULT_THICKNESS
  /\ calls = [c \in CallIds |-> IdleCall]

NodeSteps ==
  \/ NodeEstimate
  \/ NodeDefault
  \/ NodeMask
  \/ NodeExtrude
  \/ NodeCheckEmpty
  \/ NodeWrite

BrowserSteps(c) ==
  \/ BrowserLoadImage(c)
  \/ BrowserBudget(c)
  \/ BrowserMask(c)
  \/ BrowserExtrude(c)
  \/ BrowserCheckEmpty(c)
  \/ BrowserBlob(c)

\* A call is started only from the idle position; the guard stands before the
\* choice of the request.
Next ==
  \/ \E e \in Envs : parseArgs(e)
  \/ (node.pc = "idle" /\ \E req \in Requests : NodeCall(req))
  \/ NodeSteps
  \/ (calls[1].pc = "idle" /\ node.pc = "load" /\ \E req \in Requests : BrowserCall(1, req))
  \/ BrowserSteps(1)

Spec == Init /\ [][Next]_vars

NextGeom ==
  \/ parseArgs([MAX_PX |-> None, TARGET_MB |-> None])
  \/ (node.pc = "idle" /\ \E req \in GeomRequests : NodeCall(req))
  \/ NodeSteps
  \/ (calls[1].pc = "idle" /\ node.pc = "load" /\ \E req \in GeomRequests : BrowserCall(1, req))
  \/ BrowserSteps(1)

SpecGeom == Init /\ [][NextGeom]_vars

\* A caller of generate that reuses one options object.
NextReuse ==
  \/ \E e \in Envs : parseArgs(e)
  \/ (node.pc = "idle" /\ \E req \in ReuseRequests : NodeCall(req))
  \/ NodeSteps
  \/ \E im \in ReuseImages : NodeCallAgain(im)

SpecReuse == Init /\ [][NextReuse]_vars

\* Both programs on the same input.
NextBoth ==
  \/ parseArgs([MAX_PX |-> None, TARGET_MB |-> None])
  \/ (node.pc = "idle" /\ calls[1].pc = "idle"
        /\ \E req \in BothRequests : BothCall(req))
  \/ NodeSteps
  \/ BrowserSteps(1)

SpecBoth == Init /\ [][NextBoth]_vars

\* Two generateSTL calls on one converter instance: either call may start
\* while the other waits at an await.
NextTwoCalls ==
  \/ \E c \in CallIds :
       (calls[c].pc = "idle" /\ \E req \in TwoCallRequests : BrowserCall(c, req))
  \/ \E c \in CallIds : BrowserSteps(c)

SpecTwoCalls == Init /\ [][NextTwoCalls]_vars

\* ------------------------------------------------------------------------
\* Meshes of the finished extrusions
\* ------------------------------------------------------------------------
\* The extruder has just returned: the triangle sequence is complete and is
\* not changed afterwards (the later positions hold the same sequence).
NodeExtruded == node.pc = "finish"
BrowserExtruded(c) == calls[c].pc = "finish"

\* [m: the mask record, Kn: numerator of the effective scale, Z: the thickness
\* the request asked for, tris: the triangle sequence] of each extrusion made.
Meshes ==
  (IF NodeExtruded
   THEN {[m |-> node.mask, Kn |-> node.effectiveScale.n, Z |-> node.thickness,
          tris |-> node.triangles]}
   ELSE {})
  \cup {[m |-> calls[c].mask, Kn |-> calls[c].effectiveScale.n,
         Z |-> calls[c].opt.thickness, tris |-> calls[c].triangles] :
          c \in {c \in CallIds : BrowserExtruded(c)}}

Cells(m) == (0..(m.width - 1)) \X (0..(m.height - 1))
IsFg(m, x, y) ==
  /\ x >= 0 /\ x < m.width /\ y >= 0 /\ y < m.height
  /\ m.mask[y * m.width + x] = 1
FgCells(m) == {xy \in Cells(m) : IsFg(m, xy[1], xy[2])}

\* The four cardinal directions as mask offsets: x-1, x+1, y+1, y-1.
Dirs == {<<-1, 0>>, <<1, 0>>, <<0, 1>>, <<0, -1>>}
Exposed(m, xy, d) == ~IsFg(m, xy[1] + d[1], xy[2] + d[2])
ExposedSides(m) == {p \in FgCells(m) \X Dirs : Exposed(m, p[1], p[2])}

\* Physical extent of cell xy (numerators): x in XLo..XHi, y in YLo..YHi.
XLo(g, xy) == xy[1] * g.Kn
XHi(g, xy) == (xy[1] + 1) * g.Kn
YLo(g, xy) == (g.m.height - xy[2] - 1) * g.Kn
YHi(g, xy) == (g.m.height - xy[2]) * g.Kn

InCellColumn(g, xy, v) ==
  /\ v[1] \in {XLo(g, xy), XHi(g, xy)}
  /\ v[2] \in {YLo(g, xy), YHi(g, xy)}

\* Triangles (indices) of mesh g that lie in the top / bottom face of cell xy.
FaceTris(g, xy, z) ==
  {i \in 1..Len(g.tris) :
     \A k \in 1..3 : InCellColumn(g, xy, g.tris[i][k]) /\ g.tris[i][k][3] = z}

\* The plane of the boundary between cell xy and its neighbour in direction
\* d: <<axis, value>>, with mask y+1 at YLo and mask y-1 at YHi (the y flip).
SidePlane(g, xy, d) ==
  IF d = <<-1, 0>> THEN <<1, XLo(g, xy)>>
  ELSE IF d = <<1, 0>> THEN <<1, XHi(g, xy)>>
  ELSE IF d = <<0, 1>> THEN <<2, YLo(g, xy)>>
  ELSE <<2, YHi(g, xy)>>

\* Triangles of mesh g that lie in the wall between cell xy and direction d.
SideTris(g, xy, d) ==
  {i \in 1..Len(g.tris) :
     \A k \in 1..3 :
       /\ InCellColumn(g, xy, g.tris[i][k])
       /\ g.tris[i][k][SidePlane(g, xy, d)[1]] = SidePlane(g, xy, d)[2]}

\* Outward direction of side d in model space (mask y+1 is model -y).
Outward(d) == <<d[1], -d[2]>>

Sign(n) == IF n > 0 THEN 1 ELSE IF n < 0 THEN -1 ELSE 0

\* ------------------------------------------------------------------------
\* Claims
\* ------------------------------------------------------------------------

\* C1: every extrusion emits, for each foreground cell, exactly 2 top and 2
\* bottom triangles plus exactly 2 triangles for each cardinal direction
\* whose neighbour is background or out of bounds and none for a direction
\* whose neighbour is foreground; the total is 4*F + 2*E, and it is 0 iff the
\* mask has no foreground cell.
C1_TriangleCount ==
  \A g \in Meshes :
    /\ Len(g.tris) = 4 * Cardinality(FgCells(g.m)) + 2 * Cardinality(ExposedSides(g.m))
    /\ (Len(g.tris) = 0 <=> FgCells(g.m) = {})
    /\ \A xy \in FgCells(g.m) :
         /\ Cardinality(FaceTris(g, xy, g.Z)) = 2
         /\ Cardinality(FaceTris(g, xy, 0)) = 2
         /\ \A d \in Dirs :
              Cardinality(SideTris(g, xy, d)) = IF Exposed(g.m, xy, d) THEN 2 ELSE 0

\* C1 witness: a mask of exactly two horizontally adjacent foreground cells
\* extruded to 20 triangles, by both programs' code paths (either one here).
C1_Witness ==
  \E g \in Meshes :
    /\ g.m.width = 2 /\ g.m.height = 1
    /\ FgCells(g.m) = {<<0, 0>>, <<1, 0>>}
    /\ Len(g.tris) = 20

\* C2 (as claimed): the two top-face triangles of every foreground cell have
\* a normal pointing in +z and the two bottom-face triangles in -z.
C2_TopBottomOutward ==
  \A g \in Meshes : \A xy \in FgCells(g.m) :
    /\ \A i \in FaceTris(g, xy, g.Z) :
         Normal(g.tris[i])[1] = 0 /\ Normal(g.tris[i])[2] = 0 /\ Normal(g.tris[i])[3] > 0
    /\ \A i \in FaceTris(g, xy, 0) :
         Normal(g.tris[i])[1] = 0 /\ Normal(g.tris[i])[2] = 0 /\ Normal(g.tris[i])[3] < 0

\* C3: for every foreground cell and every cardinal direction whose neighbour
\* is background or out of bounds, the two side triangles lie in the plane
\* of the boundary shared with that neighbour and their normal points away
\* from the cell toward the neighbour.
C3_SidesOutward ==
  \A g \in Meshes : \A xy \in FgCells(g.m) : \A d \in Dirs :
    Exposed(g.m, xy, d) =>
      /\ Cardinality(SideTris(g, xy, d)) = 2
      /\ \A i \in SideTris(g, xy, d) :
           /\ Sign(Normal(g.tris[i])[1]) = Outward(d)[1]
           /\ Sign(Normal(g.tris[i])[2]) = Outward(d)[2]
           /\ Normal(g.tris[i])[3] = 0

\* C3 witness: a cell with exposed sides in all four directions was extruded.
C3_Witness ==
  \E g \in Meshes : \E xy \in FgCells(g.m) :
    /\ \A d \in Dirs : Exposed(g.m, xy, d)
    /\ g.m.width = 3 /\ g.m.height = 3 /\ xy = <<1, 1>>
    /\ \A d \in Dirs : Cardinality(SideTris(g, xy, d)) = 2

\* The undirected edges of a triangle, as sets of two vertex positions.
EdgesOf(tri) == {{tri[1], tri[2]}, {tri[2], tri[3]}, {tri[1], tri[3]}}
AllEdges(g) == UNION {EdgesOf(g.tris[i]) : i \in 1..Len(g.tris)}
EdgeUse(g, e) == Cardinality({i \in 1..Len(g.tris) : e \in EdgesOf(g.tris[i])})

\* Two foreground cells touch only at a corner: diagonal neighbours that are
\* foreground while the two cells between them are background.
CornerTouch(m) ==
  \E xy \in FgCells(m) : \E dx \in {-1, 1} :
    /\ IsFg(m, xy[1] + dx, xy[2] + 1)
    /\ ~IsFg(m, xy[1] + dx, xy[2])
    /\ ~IsFg(m, xy[1], xy[2] + 1)

\* C4: the emitted triangle set is a closed surface: every undirected edge
\* that occurs in some triangle occurs in an even number of triangles, and
\* in exactly 2 when no two foreground cells touch only at a corner.
C4_ClosedSurface ==
  \A g \in Meshes : \A e \in AllEdges(g) :
    /\ EdgeUse(g, e) % 2 = 0
    /\ EdgeUse(g, e) > 0
    /\ (~CornerTouch(g.m) => EdgeUse(g, e) = 2)

\* C4 witness: a mesh of two cells touching only at a corner, whose shared
\* vertical edge is used by 4 triangles, was extruded.
C4_Witness ==
  \E g \in Meshes :
    /\ CornerTouch(g.m)
    /\ \E e \in AllEdges(g) : EdgeUse(g, e) = 4
    /\ \E e \in AllEdges(g) : EdgeUse(g, e) = 2

\* ------------------------------------------------------------------------
\* Conversions whose mask has been decided
\* ------------------------------------------------------------------------
NodeMasked == node.pc \in {"extrude", "finish", "write", "done", "error"}
NodeScaled == node.pc \in {"finish", "write", "done", "error"}
BrowserMasked(c) == calls[c].pc \in {"extrude", "finish", "blob", "done", "error"}

\* [image, T: the threshold asked for, max_px / target: as the caller gave
\* them, budget: the pixel budget the resample decision read, resampled,
\* mask] of every conversion whose mask has been built.
MaskedRuns ==
  (IF NodeMasked
   THEN {[prog |-> "node", image |-> node.image, T |-> node.threshold,
          max_px |-> node.request.max_px, target |-> node.request.target_size_mb,
          budget |-> options.max_px, resampled |-> node.resampled,
          mask |-> node.mask]}
   ELSE {})
  \cup {[prog |-> "browser", image |-> calls[c].image, T |-> calls[c].opt.threshold,
         max_px |-> calls[c].opt.max_px, target |-> calls[c].opt.target_size_mb,
         budget |-> calls[c].effectiveMaxPx, resampled |-> calls[c].resampled,
         mask |-> calls[c].mask] :
          c \in {c \in CallIds : BrowserMasked(c)}}

\* [image, budget, resampled, mask, scale: the original scale, K: the
\* effective scale] of every conversion whose effective scale is computed.
ScaledRuns ==
  (IF NodeScaled
   THEN {[prog |-> "node", image |-> node.image, T |-> node.threshold,
          budget |-> options.max_px, resampled |-> node.resampled, mask |-> node.mask,
          scale |-> node.originalScale, K |-> node.effectiveScale]}
   ELSE {})
  \cup {[prog |-> "browser", image |-> calls[c].image, T |-> calls[c].opt.threshold,
         budget |-> calls[c].effectiveMaxPx, resampled |-> calls[c].resampled,
         mask |-> calls[c].mask, scale |-> calls[c].scale,
         K |-> calls[c].effectiveScale] :
          c \in {c \in CallIds : BrowserMasked(c)}}

LongSide(im) == IF im.width >= im.height THEN im.width ELSE im.height
Abs(n) == IF n < 0 THEN -n ELSE n

\* |K * cells - scale * pixels| <= K, for K = K.n / K.d and scale = n / d in
\* the same unit (both sides multiplied by K.d * scale.d).
WithinOneCell(K, cells, scale, pixels) ==
  /\ K.unit = scale.unit
  /\ Abs(K.n * cells * scale.d - scale.n * pixels * K.d) <= K.n * scale.d

\* C5 (as claimed): whenever the mask is resampled, the effective scale K
\* preserves the physical size in both dimensions: K * Mw equals scale * W
\* and K * Mh equals scale * H, each within one resampled cell edge K.
C5_SizePreserved ==
  \A r \in ScaledRuns :
    r.resampled =>
      /\ WithinOneCell(r.K, r.mask.width, r.scale, r.image.width)
      /\ WithinOneCell(r.K, r.mask.height, r.scale, r.image.height)

\* The gray / threshold rule stated on its own: the nearest integer to
\* (r + g + b) / 3 is the q with |3q - (r + g + b)| <= 1.
NearestThird(sum) == CHOOSE q \in 0..255 : 3 * q - sum \in {-1, 0, 1}
ForegroundPixel(px, T) == px[4] # 0 /\ NearestThird(px[1] + px[2] + px[3]) < T

FullMask(r) ==
  /\ r.mask.width = r.image.width
  /\ r.mask.height = r.image.height
  /\ DOMAIN r.mask.mask = 0..(r.image.width * r.image.height - 1)
  /\ \A i \in DOMAIN r.mask.mask :
       r.mask.mask[i] = IF ForegroundPixel(r.image.data[i], r.T) THEN 1 ELSE 0

\* C6: a conversion whose mask has no foreground cell ends in an error and
\* produces no output: generate throws before the output file is written and
\* generateSTL before a Blob is built; a conversion that did produce output
\* had a foreground cell.
C6_EmptyMaskFails ==
  /\ (NodeMasked /\ FgCells(node.mask) = {}) =>
       (node.file = NoFile /\ node.pc \notin {"write", "done"})
  /\ node.pc = "error" => (FgCells(node.mask) = {} /\ node.file = NoFile)
  /\ node.pc = "done" => (FgCells(node.mask) # {} /\ node.file # NoFile)
  /\ \A c \in CallIds :
       /\ (BrowserMasked(c) /\ FgCells(calls[c].mask) = {}) =>
            (calls[c].blob = NoFile /\ calls[c].pc \notin {"blob", "done"})
       /\ calls[c].pc = "error" => (FgCells(calls[c].mask) = {} /\ calls[c].blob = NoFile)
       /\ calls[c].pc = "done" => (FgCells(calls[c].mask) # {} /\ calls[c].blob # NoFile)

\* C6 witness: generate has thrown on a black image converted with
\* threshold 0.
C6_Witness ==
  /\ node.pc = "error"
  /\ node.threshold = 0
  /\ \E i \in DOMAIN node.image.data : node.image.data[i] = Black
  /\ node.file = NoFile

\* C7 (as claimed): in every conversion in which neither max_px nor a target
\* size is given (for generate: neither in the options nor in process.env),
\* the mask's longer side is at most the default budget of 400 cells.
C7_DefaultBudget ==
  \A r \in MaskedRuns :
    (/\ ~Truthy(r.max_px) /\ ~Truthy(r.target)
     /\ r.prog = "node" => (~Truthy(env.MAX_PX) /\ ~Truthy(env.TARGET_MB)))
      => LongSide(r.mask) <= DEFAULT_MAX_PX

\* The budget sources generate consults: max_px is in effect when the
\* options carry it, or when the options carry neither and --max-px was
\* given; a target size is in effect when no max_px is and the options carry
\* it or --target-mb was given.
MaxPxInEffect ==
  \/ Truthy(node.request.max_px)
  \/ (~Truthy(node.request.target_size_mb) /\ Truthy(env.MAX_PX))
TargetInEffect ==
  /\ ~MaxPxInEffect
  /\ (Truthy(node.request.target_size_mb) \/ Truthy(env.TARGET_MB))

\* C8 (as claimed): in generate, whenever no max_px is in effect and a
\* target size is in effect (from the options or from the _TARGET_MB
\* fallback), the size estimate has run before the resample decision and its
\* budget is the one the decision used; whenever max_px is in effect the
\* size estimate has not run.
C8_EstimateFeedsResample ==
  NodeMasked =>
    /\ TargetInEffect =>
         /\ node.estimate # None
         /\ options.max_px = node.estimate
         /\ node.resampled <=> LongSide(node.image) > node.estimate
    /\ MaxPxInEffect => node.estimate = None

\* C9: without resampling, a mask cell is foreground iff the pixel's alpha
\* is not 0 and round((R+G+B)/3) < T; a pixel with alpha 0 is background for
\* every threshold; the mask has the width and height of the pixel buffer.
C9_MaskRule ==
  \A r \in MaskedRuns :
    ~r.resampled =>
      /\ FullMask(r)
      /\ \A i \in DOMAIN r.mask.mask : r.image.data[i][4] = 0 => r.mask.mask[i] = 0

\* C9 witness: a mask built with threshold 255 from a transparent pixel
\* (background) and a pixel of gray 127 (foreground).
C9_Witness ==
  \E r \in MaskedRuns :
    /\ ~r.resampled /\ r.T = 255
    /\ r.image.width = 2 /\ r.image.height = 1
    /\ r.image.data[0] = Clear /\ r.image.data[1] = Dark
    /\ r.mask.mask[0] = 0 /\ r.mask.mask[1] = 1

\* C10: when max(W,H) <= M, or no budget is in effect, resampling is
\* skipped: the mask is exactly the full-resolution mask with Mw = W and
\* Mh = H, and the effective scale equals the original scale.
C10_NoResample ==
  \A r \in ScaledRuns :
    (~Truthy(r.budget) \/ LongSide(r.image) <= r.budget) =>
      /\ ~r.resampled
      /\ FullMask(r)
      /\ SameScale(r.K, r.scale)

\* C10 witness: generate converted a non-square image whose longer side
\* equals the budget given as max_px, without resampling.
C10_Witness ==
  \E r \in ScaledRuns :
    /\ r.prog = "node" /\ r.budget = 2
    /\ r.image.width = 2 /\ r.image.height = 1
    /\ ~r.resampled /\ r.mask.width = 2

\* q = Math.round(n / d), stated without division: the integer q with
\* n/d - 1/2 < q <= n/d + 1/2.
IsRound(q, n, d) == 2 * n - d < 2 * q * d /\ 2 * q * d <= 2 * n + d

\* side = max(1, round(pixels * M / L))
ResampledSide(side, pixels, M, L) ==
  \E q \in 0..pixels : IsRound(q, pixels * M, L) /\ side = Max(1, q)

C11_ClampReached ==
  \E r \in MaskedRuns :
    /\ r.resampled /\ r.image.height = 1 /\ r.image.width > 2 * r.budget
    /\ r.mask.height = 1

\* ------------------------------------------------------------------------
\* Serialized outputs
\* ------------------------------------------------------------------------
\* [file, tris, name] of every output written: the file of generate and the
\* Blob of generateSTL.
Files ==
  (IF node.pc = "done"
   THEN {[prog |-> "node", file |-> node.file, tris |-> node.triangles,
          name |-> NAME_EXTRUDED]}
   ELSE {})
  \cup {[prog |-> "browser", file |-> calls[c].blob, tris |-> calls[c].triangles,
         name |-> NAME_MODEL] :
          c \in {c \in CallIds : calls[c].pc = "done"}}

\* The 12 floats of a triangle record, in file order: the unit normal (for
\* a face along an axis: the signs of the cross product), then v0, v1, v2.
ExpectedFloat(tri, j) ==
  IF j < 3 THEN [num |-> Sign(Normal(tri)[j + 1]), sq |-> 1]
  ELSE [num |-> tri[((j - 3) \div 3) + 1][((j - 3) % 3) + 1], sq |-> 1]

DecodeLE(bytes) ==
  IF Len(bytes) = 4
  THEN bytes[1] + 256 * bytes[2] + 65536 * bytes[3] + 16777216 * bytes[4]
  ELSE bytes[1] + 256 * bytes[2]

\* C12: serializing N triangles gives a buffer of exactly 84 + 50*N bytes;
\* bytes 0..79 hold the name, zero padded (the only write below offset 80
\* is the name's, the rest of the zero-filled buffer is untouched); bytes
\* 80..83 hold N as an unsigned 32-bit little-endian integer; triangle i
\* occupies bytes 84+50*i .. 84+50*i+49 as normal, v0, v1, v2, then a 2-byte
\* field equal to 0; every write lies inside the buffer and the write offset
\* after the last triangle equals the buffer length.
C12_StlLayout ==
  \A f \in Files :
    LET N == Len(f.tris)
        w == f.file.writes
    IN  /\ f.file.length = 84 + 50 * N
        /\ Len(w) = 2 + 13 * N
        /\ w[1].at = 0 /\ w[1].kind = "raw"
        /\ w[1].size >= Len(f.name) /\ w[1].size <= 80
        /\ \A k \in 1..w[1].size :
             w[1].val[k] = IF k <= Len(f.name) THEN f.name[k] ELSE 0
        /\ \A k \in 2..Len(w) : w[k].at >= 80
        /\ w[2].at = 80 /\ w[2].kind = "raw" /\ w[2].size = 4
        /\ \A k \in 1..4 : w[2].val[k] \in 0..255
        /\ DecodeLE(w[2].val) = N
        /\ \A i \in 0..(N - 1) :
             /\ \A j \in 0..11 :
                  LET wr == w[2 + 13 * i + j + 1]
                  IN  /\ wr.at = 84 + 50 * i + 4 * j
                      /\ wr.kind = "f32" /\ wr.size = 4
                      /\ wr.val = ExpectedFloat(f.tris[i + 1], j)
             /\ LET wr == w[2 + 13 * i + 13]
                IN  /\ wr.at = 84 + 50 * i + 48
                    /\ wr.kind = "raw" /\ wr.size = 2
                    /\ DecodeLE(wr.val) = 0 /\ wr.val[1] = 0 /\ wr.val[2] = 0
        /\ \A k \in 1..Len(w) : w[k].at >= 0 /\ w[k].at + w[k].size <= f.file.length
        /\ f.file.offset = f.file.length

\* C12 witness: generate wrote a file of 264 triangles, 84 + 50 * 264 bytes,
\* whose count field is the bytes 8, 1, 0, 0.
C12_Witness ==
  \E f \in Files :
    /\ f.prog = "node" /\ Len(f.tris) = 264
    /\ f.file.length = 13284 /\ f.file.offset = 13284
    /\ f.file.writes[2].val = <<8, 1, 0, 0>>

\* C12 second case: generateSTL returned a Blob for a single cell.
C12_BlobReached ==
  \E f \in Files :
    /\ f.prog = "browser" /\ Len(f.tris) = 12 /\ f.file.length = 684
    /\ f.file.writes[1].val = NAME_MODEL

\* C13 (as claimed): the report of generate reflects the scale used to
\* build the mesh: for every combination of options.scale, width_mm and
\* height_mm the effective per-cell scale equals the reported
\* scale_mm_per_px times origW / maskW, and the reported width_mm equals
\* maskW times the effective scale.
C13_ReportMatchesMesh ==
  node.pc = "done" =>
    /\ SameScale(node.effectiveScale,
                 ScaleTimes(node.result.scale_mm_per_px, node.image.width,
                            node.mask.width))
    /\ SameScale(node.result.width_mm,
                 ScaleTimes(node.effectiveScale, node.mask.width, 1))

\* C13 restricted to calls without options.scale.
C13_WithoutScaleOption ==
  (node.pc = "done" /\ node.request.scale = NoScale) => C13_ReportMatchesMesh

\* [S: the target size in bytes, M: the estimated budget, image, mask, size:
\* the length of the output] of every conversion that wrote its output
\* after a size estimate.
EstimatedOutputs ==
  (IF node.pc = "done" /\ node.estimate # None
   THEN {[S |-> node.request.target_size_mb, M |-> node.estimate,
          image |-> node.image, mask |-> node.mask, size |-> node.file.length]}
   ELSE {})
  \cup {[S |-> calls[c].opt.target_size_mb, M |-> calls[c].estimate,
         image |-> calls[c].image, mask |-> calls[c].mask,
         size |-> calls[c].blob.length] :
          c \in {c \in CallIds : calls[c].pc = "done" /\ calls[c].estimate # None}}

\* |size - S| <= S / 2
WithinHalf(size, S) == 2 * Abs(size - S) <= S

\* C14 (as claimed): whenever the size estimate returns a budget smaller
\* than max(W,H) for an image with a foreground pixel, the file produced by
\* estimate, resample, extrude and serialize has a size 84 + 50*N within
\* +/-50% of the requested target S.
C14_SizeNearTarget ==
  \A o \in EstimatedOutputs :
    o.M < LongSide(o.image) => WithinHalf(o.size, o.S)

\* The band is met by the all-black row with room for 2400 triangles.
C14_BandMet ==
  \E o \in EstimatedOutputs :
    /\ o.M < LongSide(o.image) /\ o.S = 84 + 50 * 2400
    /\ WithinHalf(o.size, o.S)

\* The mask the run's program builds from the run's pixel buffer and budget
\* with threshold T.
MaskWith(r, T) ==
  IF r.resampled
  THEN downsampleImage(r.image.data, r.image.width, r.image.height,
                       Max(1, r.budget), T).mask
  ELSE createMask(r.image.data, r.image.width, r.image.height, T)

\* The runs on an enumerated small image whose mask has just been built.
JustMasked ==
  {r \in MaskedRuns :
     /\ r.image.width * r.image.height <= MaxCells
     /\ IF r.prog = "node" THEN node.pc = "extrude"
        ELSE \E c \in CallIds : calls[c].pc = "extrude"}

\* C15: for a fixed pixel buffer, raising the threshold never turns a
\* foreground cell into background: every cell that is foreground in the
\* mask built with a threshold T1 is foreground in the mask built with any
\* T2 >= T1, for thresholds in 0..255 (T1 or T2 being the threshold of the
\* mask the program built).
C15_ThresholdMonotone ==
  \A r \in JustMasked :
    r.T \in 0..255 =>
      \A T \in 0..255 :
        LET other == MaskWith(r, T)
        IN  /\ DOMAIN other = DOMAIN r.mask.mask
            /\ \A i \in DOMAIN r.mask.mask :
                 /\ (T >= r.T /\ r.mask.mask[i] = 1) => other[i] = 1
                 /\ (T <= r.T /\ other[i] = 1) => r.mask.mask[i] = 1

\* C15 witness: a mask built with threshold 128 has a background cell (gray
\* 128) that threshold 129 turns foreground, next to a foreground cell (gray
\* 127) that threshold 127 turns background.
C15_Witness ==
  \E r \in JustMasked :
    /\ r.T = 128 /\ ~r.resampled
    /\ r.image.width = 2 /\ r.image.height = 1
    /\ r.image.data[0] = Mid /\ r.image.data[1] = Dark
    /\ r.mask.mask[0] = 0 /\ MaskWith(r, 129)[0] = 1
    /\ r.mask.mask[1] = 1 /\ MaskWith(r, 127)[1] = 0

\* C16 (as claimed): each of two generateSTL calls on one instance,
\* interleaved at the awaits, builds its mask with its own threshold and its
\* mesh with its own thickness, whatever the options of the other call.
C16_CallsIndependent ==
  \A c \in CallIds :
    /\ BrowserMasked(c) =>
         FullMask([image |-> calls[c].image, mask |-> calls[c].mask,
                   T |-> calls[c].opt.threshold])
    /\ calls[c].pc \in {"finish", "blob", "done", "error"} =>
         \A i \in 1..Len(calls[c].triangles) : \A k \in 1..3 :
           calls[c].triangles[i][k][3] \in {0, calls[c].opt.thickness}

\* C16 holds for calls that do not overlap: the other call is idle or has
\* returned during the whole call.
C16_Sequential ==
  \A c \in CallIds :
    (\A o \in CallIds \ {c} : calls[o].pc = "idle") =>
      /\ BrowserMasked(c) =>
           FullMask([image |-> calls[c].image, mask |-> calls[c].mask,
                     T |-> calls[c].opt.threshold])
      /\ calls[c].pc \in {"finish", "blob", "done", "error"} =>
           \A i \in 1..Len(calls[c].triangles) : \A k \in 1..3 :
             calls[c].triangles[i][k][3] \in {0, calls[c].opt.thickness}

\* The pixel budget generate uses when called with a fresh options object
\* of contents opts on image: max_px if given, else the size estimate of
\* this image if a target size is given, else --max-px, else nothing if
\* --target-mb is given, else the default.
FreshBudget(opts, image, T) ==
  IF Truthy(opts.max_px) THEN opts.max_px
  ELSE IF Truthy(opts.target_size_mb)
       THEN estimateMaxPxFromTargetMB(image.data, image.width, image.height,
                                      opts.target_size_mb, T)
  ELSE IF Truthy(env.MAX_PX) THEN env.MAX_PX
  ELSE IF Truthy(env.TARGET_MB) THEN None
  ELSE DEFAULT_MAX_PX

\* C17 (as claimed): generate leaves the caller's options object unchanged,
\* and in every call of a sequence of calls that reuse one options object
\* on different images the pixel budget in effect is the one a call with a
\* fresh copy of the options would use on that call's image.
C17_OptionsUntouched ==
  /\ node.pc \notin {"load", "idle"} => options = node.request
  /\ NodeMasked => options.max_px = FreshBudget(node.request, node.image, node.threshold)

\* The second part of C17 on its own: the budget in effect is the fresh
\* call's budget.
C17_BudgetOfOwnImage ==
  NodeMasked => options.max_px = FreshBudget(node.request, node.image, node.threshold)

\* C18: in a resampled mask every cell (x2, y2) reads the source pixel at
\* srcX = floor(x2*W/newW), srcY = floor(y2*H/newH); these lie inside the
\* pixel buffer without the min clamp, and the cell's value is the
\* full-resolution mask rule applied to that pixel with the same threshold.
C18_SourceInBounds ==
  \A r \in MaskedRuns :
    r.resampled =>
      \A x2 \in 0..(r.mask.width - 1) : \A y2 \in 0..(r.mask.height - 1) :
        LET srcX == (x2 * r.image.width) \div r.mask.width
            srcY == (y2 * r.image.height) \div r.mask.height
        IN  /\ 0 <= srcX /\ srcX <= r.image.width - 1
            /\ 0 <= srcY /\ srcY <= r.image.height - 1
            /\ r.mask.mask[y2 * r.mask.width + x2] =
                 IF ForegroundPixel(r.image.data[srcY * r.image.width + srcX], r.T)
                 THEN 1 ELSE 0

\* C18 witness: a 3x1 image black, white, black resampled to 2 cells: cell 1
\* reads pixel floor(3/2) = 1, the white one.
C18_Witness ==
  \E r \in MaskedRuns :
    /\ r.resampled /\ r.T = 128
    /\ r.image.width = 3 /\ r.image.height = 1 /\ r.mask.width = 2
    /\ r.image.data[0] = Black /\ r.image.data[1] = White /\ r.image.data[2] = Black
    /\ r.mask.mask[0] = 1 /\ r.mask.mask[1] = 0

\* [S: the target in bytes, L: max(W,H), black: the number of foreground
\* pixels at the original resolution, M: the budget returned] of every size
\* estimate made.
Estimates ==
  (IF node.estimate # None
   THEN {[S |-> node.request.target_size_mb, L |-> LongSide(node.image),
          black |-> Cardinality({i \in DOMAIN node.image.data :
                                   ForegroundPixel(node.image.data[i], node.threshold)}),
          M |-> node.estimate]}
   ELSE {})
  \cup {[S |-> calls[c].opt.target_size_mb, L |-> LongSide(calls[c].image),
         black |-> Cardinality({i \in DOMAIN calls[c].image.data :
                                  ForegroundPixel(calls[c].image.data[i],
                                                  calls[c].opt.threshold)}),
         M |-> calls[c].estimate] :
          c \in {c \in CallIds : calls[c].estimate # None}}

Desired(S) == Max(1, (S - 84) \div 50)
Estimated(black) == Max(1, 6 * black)

\* m is the largest integer with m*m*est <= L*L*desired.
LargestRoot(m, L, desired, est) ==
  /\ m >= 0
  /\ m * m * est <= L * L * desired
  /\ (m + 1) * (m + 1) * est > L * L * desired

\* C19 (as claimed): the size estimate returns M with 1 <= M <= max(W,H):
\* exactly max(W,H) when est <= desired, otherwise (for desired / est of at
\* least 1e-6) the largest integer M with M*M*est <= L*L*desired, raised to
\* 1 if that is 0; a target below 134 bytes gives desired = 1 and an image
\* without foreground pixels gives M = max(W,H).
C19_EstimateFormula ==
  \A e \in Estimates :
    LET desired == Desired(e.S)
        est == Estimated(e.black)
    IN  /\ 1 <= e.M /\ e.M <= e.L
        /\ est <= desired => e.M = e.L
        /\ (est > desired /\ desired > (est - 1) \div 1000000) =>
             \E m \in 0..e.L : LargestRoot(m, e.L, desired, est) /\ e.M = Max(1, m)
        /\ e.S < 134 => desired = 1
        /\ e.black = 0 => e.M = e.L

\* C19 up to the rounding of the doubles: the budget is the largest root or
\* one less.
C19_UpToRounding ==
  \A e \in Estimates :
    LET desired == Desired(e.S)
        est == Estimated(e.black)
    IN  /\ 1 <= e.M /\ e.M <= e.L
        /\ est <= desired => e.M = e.L
        /\ (est > desired /\ desired > (est - 1) \div 1000000) =>
             \E m \in 0..e.L :
               /\ LargestRoot(m, e.L, desired, est)
               /\ e.M \in {Max(1, m), Max(1, m - 1)}
        /\ e.black = 0 => e.M = e.L

\* Two vertices are the same point: v1 is in numerators of scale K1 and v2
\* of K2 (x = X * unit / d).
SameVertex(v1, K1, v2, K2) ==
  /\ K1.unit = K2.unit
  /\ v1[1] * K2.d = v2[1] * K1.d
  /\ v1[2] * K2.d = v2[2] * K1.d
  /\ v1[3] = v2[3]

BothExtruded ==
  /\ node.pc \in {"finish", "write", "done", "error"}
  /\ calls[1].pc \in {"finish", "blob", "done", "error"}
  /\ node.image = calls[1].image

\* C20: for every pixel buffer, threshold, thickness, width_mm / height_mm
\* choice and explicit integer max_px >= 1, generate and generateSTL build
\* the same mask (dimensions and cells), the same effective scale and the
\* same triangle sequence (same triangles, vertex order and sequence order).
C20_SameAlgorithm ==
  (BothExtruded /\ node.request.max_px >= 1) =>
    /\ node.mask.width = calls[1].mask.width
    /\ node.mask.height = calls[1].mask.height
    /\ node.mask.mask = calls[1].mask.mask
    /\ node.resampled = calls[1].resampled
    /\ SameScale(node.effectiveScale, calls[1].effectiveScale)
    /\ Len(node.triangles) = Len(calls[1].triangles)
    /\ \A i \in 1..Len(node.triangles) : \A k \in 1..3 :
         SameVertex(node.triangles[i][k], node.effectiveScale,
                    calls[1].triangles[i][k], calls[1].effectiveScale)

\* C20 witness: both programs resampled a 3x1 image to 2x1 with a width of
\* 6 mm and built the 20 triangles of two adjacent cells.
C20_Witness ==
  /\ BothExtruded /\ node.request.max_px = 2 /\ node.request.width_mm = 6
  /\ node.image.width = 3 /\ node.image.height = 1
  /\ node.resampled /\ calls[1].resampled
  /\ node.mask.width = 2 /\ node.mask.height = 1
  /\ Len(node.triangles) = 20 /\ Len(calls[1].triangles) = 20

\* C20 second case: both programs kept a 3x1 image at full resolution
\* (max_px = 3) and built the same non-empty mesh.
C20_FullResolution ==
  /\ BothExtruded /\ node.request.max_px = 3
  /\ node.image.width = 3 /\ node.image.height = 1
  /\ ~node.resampled /\ ~calls[1].resampled
  /\ Len(node.triangles) > 0 /\ Len(calls[1].triangles) > 0

====
